---- MODULE Spec2Model ----
(***************************************************************************)
(* A model of the query layer of uc-chart-backend (src/database).          *)
(*                                                                         *)
(* Part 1 models the accounts table and the statements built by            *)
(* accounts.py as PostgreSQL executes them: the sonolus_sessions JSONB     *)
(* column, the upsert, and the slot-allocating UPDATE.  The connection     *)
(* wrapper (src/database/__init__.py) runs each statement on its own, so   *)
(* a statement runs under READ COMMITTED: its WITH/SELECT part reads the   *)
(* snapshot taken when the statement starts, and its UPDATE part is        *)
(* applied to the newest committed version of the row once the row lock    *)
(* is held.  The two moments are separate steps of the model.              *)
(***************************************************************************)
EXTENDS Integers, Sequences, FiniteSets, TLC

\* ----------------------------------------------------------------- bounds
MaxTime == 3
MaxRequests == 4

AccountIds == {"a1"}
SessionTypes == {"game", "external"}
\* the slot keys in the order the CASE expression tests them
SlotOrder == <<"1", "2", "3">>
\* expiry_ms as the callers pass it (the default), in clock ticks
TTLs == {2}
Handles == {1}
Usernames == {"u1"}
\* the request handlers that may run at the same time, each numbered, on a connection
\* of its own; a request goes to the first free handler
Workers == {1, 2}

ChartIds == {"c1"}

\* now: the clock; accounts: the accounts table; req: each handler's
\* request; nreq: the session keys handed out so far; displaced: the
\* session keys whose slot entry a later UPDATE replaced (history).
VARIABLES now, accounts, req, nreq, displaced

\* call: the query-builder call made of charts.py, with what it returned
\* (Part 2)
VARIABLE call

\* charts: the charts table; upd: each handler's update_status request
\* (Part 4)
VARIABLES charts, upd

vars == <<now, accounts, req, nreq, displaced, call, charts, upd>>

NoCall == [fn |-> "none"]

\* ------------------------------------------------------------ JSONB values
\* A sonolus_sessions value: SQL NULL, or an object whose top-level keys are
\* `types` and whose nested entries type -> slot -> {session_key, expires}
\* are `slots`.
JNull == [null |-> TRUE, types |-> {}, slots |-> {}]
JEmptyObject == [null |-> FALSE, types |-> {}, slots |-> {}]
JBuildObject == [null |-> FALSE, types |-> SessionTypes, slots |-> {}]

\* What an INSERT that names no sonolus_sessions leaves in the column.
ColumnDefaults == {JNull, JEmptyObject, JBuildObject}

\* jsonb_extract_path(sessions, type, slot): the entries found (none: NULL)
jsonb_extract_path(s, t, k) ==
  IF s.null THEN {} ELSE {e \in s.slots : e.type = t /\ e.slot = k}

\* jsonb_each(jsonb_extract_path(sessions, type))
jsonb_each(s, t) ==
  IF s.null THEN {} ELSE {e \in s.slots : e.type = t}

\* WHEN <slot> IS NULL OR (<slot>->>'expires')::bigint < now()*1000
SlotReusable(s, t, k, tnow) ==
  \/ jsonb_extract_path(s, t, k) = {}
  \/ \E e \in jsonb_extract_path(s, t, k) : e.expires < tnow

\* ORDER BY (val->>'expires')::bigint ASC LIMIT 1: the sort has no second
\* key, so any entry of minimal expiry may come first.
OldestSlots(s, t) ==
  {e.slot : e \in {x \in jsonb_each(s, t) :
                     \A y \in jsonb_each(s, t) : x.expires <= y.expires}}

\* slot_to_use with the ELSE branch opening a fourth slot instead of
\* reusing the oldest one
slot_to_use_append(s, t, tnow) ==
  IF SlotReusable(s, t, SlotOrder[1], tnow) THEN {SlotOrder[1]}
  ELSE IF SlotReusable(s, t, SlotOrder[2], tnow) THEN {SlotOrder[2]}
  ELSE IF SlotReusable(s, t, SlotOrder[3], tnow) THEN {SlotOrder[3]}
  ELSE {"4"}

\* the CTE slot_to_use: the slots the CASE expression may yield
slot_to_use(s, t, tnow) ==
  IF SlotReusable(s, t, SlotOrder[1], tnow) THEN {SlotOrder[1]}
  ELSE IF SlotReusable(s, t, SlotOrder[2], tnow) THEN {SlotOrder[2]}
  ELSE IF SlotReusable(s, t, SlotOrder[3], tnow) THEN {SlotOrder[3]}
  ELSE OldestSlots(s, t)

\* jsonb_set(sessions, array[type, slot], {session_key, expires}, true):
\* strict in its target, and it creates only the last key of the path.
jsonb_set(s, t, k, key, exp) ==
  IF s.null THEN JNull
  ELSE IF t \notin s.types THEN s
  ELSE [s EXCEPT !.slots = (@ \ jsonb_extract_path(s, t, k))
                   \cup {[type |-> t, slot |-> k,
                          session_key |-> key, expires |-> exp]}]

\* RETURNING (jsonb_extract_path(a.sonolus_sessions, type, slot)->>...)
\* over the row as written: one row, whose columns are NULL when the path
\* is absent.
Returning(s, t, k) ==
  IF jsonb_extract_path(s, t, k) = {}
  THEN [rows |-> 1, null |-> TRUE, session_key |-> 0, expires |-> 0]
  ELSE LET e == CHOOSE x \in jsonb_extract_path(s, t, k) : TRUE
       IN [rows |-> 1, null |-> FALSE,
           session_key |-> e.session_key, expires |-> e.expires]

NoRows == [rows |-> 0, null |-> TRUE, session_key |-> 0, expires |-> 0]

\* -------------------------------------------------------------- the table
NoChart == [exists |-> FALSE, author |-> "", status |-> "",
            published_at |-> {}]
StatusIdle == [pc |-> "idle", chart |-> "", status |-> "", sonolus_id |-> {},
               stmt_now |-> 0, snapshot |-> NoChart,
               result |-> [rows |-> 0, is_first_publish |-> FALSE,
                           published_at |-> {}]]

NoAccount == [exists |-> FALSE, handle |-> 0, username |-> "",
              sessions |-> JNull, admin |-> FALSE, mod |-> FALSE]

\* A handler's request: the arguments of the call, the progress of the
\* session query, and the row the caller gets back.  `full` records that
\* the UPDATE found all three slots of the request's type live.
Idle == [pc |-> "idle", acct |-> "", type |-> "", key |-> 0, expires |-> 0,
         found |-> FALSE, slot |-> "", stmt_now |-> 0, full |-> FALSE,
         result |-> NoRows]

Free(w) == req[w].pc \in {"idle", "done"}

Init ==
  /\ now = 0
  /\ accounts = [a \in AccountIds |-> NoAccount]
  /\ req = [w \in Workers |-> Idle]
  /\ nreq = 0
  /\ displaced = {}
  /\ call = NoCall
  /\ charts = [c \in ChartIds |-> NoChart]
  /\ upd = [w \in Workers |-> StatusIdle]

\* the clock (datetime.now() and the server's now() read the same clock)
Tick ==
  /\ now < MaxTime
  /\ now' = now + 1
  /\ UNCHANGED <<accounts, req, nreq, displaced, call, charts, upd>>

\* generate_create_account_query: a plain INSERT; on an existing id it is a
\* unique violation and changes nothing.
CreateAccount(a, h, u) ==
  /\ ~accounts[a].exists
  /\ \E d \in ColumnDefaults :
       accounts' = [accounts EXCEPT ![a] =
         [exists |-> TRUE, handle |-> h, username |-> u, sessions |-> d,
          admin |-> FALSE, mod |-> FALSE]]
  /\ UNCHANGED <<now, req, nreq, displaced, call, charts, upd>>

\* upsert_query: INSERT ... ON CONFLICT (sonolus_id) DO UPDATE
\*               SET sonolus_username = EXCLUDED.sonolus_username
upsert_query(row, h, u) ==
  IF row.exists
  THEN [row EXCEPT !.username = u]
  ELSE [exists |-> TRUE, handle |-> h, username |-> u,
        sessions |-> JBuildObject, admin |-> FALSE, mod |-> FALSE]

\* create_account_if_not_exists_and_new_session builds the two queries, with
\* expiry_time = now + expiry_ms, and the caller runs the upsert.  Callers
\* pass a fresh random session key: the nreq-th request's key is its number.
NewSession(w, a, t, ttl, h, u) ==
  /\ Free(w)
  /\ \A v \in Workers : Free(v) => ~(v < w)
  /\ nreq < MaxRequests
  /\ nreq' = nreq + 1
  /\ accounts' = [accounts EXCEPT ![a] = upsert_query(@, h, u)]
  /\ req' = [req EXCEPT ![w] =
       [Idle EXCEPT !.pc = "upserted", !.acct = a, !.type = t,
                    !.key = nreq + 1, !.expires = now + ttl]]
  /\ UNCHANGED <<now, displaced, call, charts, upd>>

\* session_query, first moment: the statement starts, now() is fixed and
\* the CTE slot_to_use is evaluated on the statement's snapshot.
SlotToUse(w) ==
  /\ req[w].pc = "upserted"
  /\ LET q == req[w]
         row == accounts[q.acct]
     IN IF row.exists
        THEN \E k \in slot_to_use(row.sessions, q.type, now) :
               req' = [req EXCEPT ![w].pc = "selected", ![w].found = TRUE,
                                  ![w].slot = k, ![w].stmt_now = now]
        ELSE req' = [req EXCEPT ![w].pc = "selected", ![w].stmt_now = now]
  /\ UNCHANGED <<now, accounts, nreq, displaced, call, charts, upd>>

\* all three slots of type t hold an entry with expires > tnow
AllLive(s, t, tnow) ==
  \A i \in 1..3 :
    \E e \in jsonb_extract_path(s, t, SlotOrder[i]) : e.expires > tnow

\* session_query, second moment: UPDATE accounts a SET sonolus_sessions =
\* jsonb_set(a.sonolus_sessions, ...) FROM slot_to_use s ... RETURNING ...
\* The target row is the newest committed version; s.slot is what the CTE
\* yielded.  The handler then holds the returned row.
UpdateSlot(w) ==
  /\ req[w].pc = "selected"
  /\ LET q == req[w]
         row == accounts[q.acct]
         new == jsonb_set(row.sessions, q.type, q.slot, q.key, q.expires)
     IN IF q.found /\ row.exists
        THEN /\ accounts' = [accounts EXCEPT ![q.acct].sessions = new]
             /\ displaced' = displaced \cup
                  {e.session_key : e \in row.sessions.slots \ new.slots}
             /\ req' = [req EXCEPT ![w] =
                  [Idle EXCEPT !.pc = "done", !.acct = q.acct,
                     !.type = q.type, !.key = q.key, !.expires = q.expires,
                     !.full = AllLive(row.sessions, q.type, q.stmt_now),
                     !.result = Returning(new, q.type, q.slot)]]
        ELSE /\ accounts' = accounts
             /\ displaced' = displaced
             /\ req' = [req EXCEPT ![w] =
                  [Idle EXCEPT !.pc = "done", !.acct = q.acct,
                     !.type = q.type, !.key = q.key, !.expires = q.expires]]
  /\ UNCHANGED <<now, nreq, call, charts, upd>>

\* get_account_from_session searching the slots of every session type
get_account_any_type(tbl, sonolus_id, session_key, session_type, tnow) ==
  {a \in DOMAIN tbl :
     /\ a = sonolus_id
     /\ tbl[a].exists
     /\ \E e \in tbl[a].sessions.slots :
          e.session_key = session_key /\ e.expires > tnow}

\* get_account_from_session: the rows of
\*   SELECT * FROM accounts WHERE sonolus_id = $1 AND EXISTS (SELECT 1 FROM
\*   jsonb_each(COALESCE(sonolus_sessions->type, '{}')) WHERE
\*   data->>'session_key' = $2 AND (data->>'expires')::bigint > now()*1000)
get_account_from_session(tbl, sonolus_id, session_key, session_type, tnow) ==
  {a \in DOMAIN tbl :
     /\ a = sonolus_id
     /\ tbl[a].exists
     /\ \E e \in jsonb_each(tbl[a].sessions, session_type) :
          e.session_key = session_key /\ e.expires > tnow}

Next ==
  \/ Tick
  \/ \E a \in AccountIds, h \in Handles, u \in Usernames : CreateAccount(a, h, u)
  \/ \E w \in Workers, a \in AccountIds, t \in SessionTypes, ttl \in TTLs,
        h \in Handles, u \in Usernames : NewSession(w, a, t, ttl, h, u)
  \/ \E w \in Workers : SlotToUse(w)
  \/ \E w \in Workers : UpdateSlot(w)

Spec == Init /\ [][Next]_vars

\* ------------------------------------------------- claims on the sessions
Done(w) == req[w].pc = "done"
Entries(a) == IF accounts[a].sessions.null THEN {} ELSE accounts[a].sessions.slots
Holds(a, t, key) == \E e \in Entries(a) : e.type = t /\ e.session_key = key
LiveEntries(a, t) == {e \in Entries(a) : e.type = t /\ e.expires > now}

\* the lowest-indexed slot of type t that is empty or expired at tnow
\* (0: none)
LowestReusable(s, t, tnow) ==
  IF \E i \in 1..3 : SlotReusable(s, t, SlotOrder[i], tnow)
  THEN CHOOSE i \in 1..3 :
         /\ SlotReusable(s, t, SlotOrder[i], tnow)
         /\ \A j \in 1..(i - 1) : ~SlotReusable(s, t, SlotOrder[j], tnow)
  ELSE 0

\* the lowest-indexed slot among those of minimal expiry
LowestOldest(s, t) ==
  CHOOSE i \in 1..3 :
    /\ SlotOrder[i] \in OldestSlots(s, t)
    /\ \A j \in 1..(i - 1) : SlotOrder[j] \notin OldestSlots(s, t)

\* C1: two new-session requests for the same account and session type, run
\* by two handlers at the same time, never select the same slot: once both
\* have completed, both new session keys are held in slots (as long as
\* they are unexpired, no session is lost).
C1_BothSessionsHeld ==
  \A v \in Workers, w \in Workers :
    (/\ v # w /\ nreq = 2 /\ Done(v) /\ Done(w)
     /\ req[v].acct = req[w].acct /\ req[v].type = req[w].type
     /\ ~req[v].result.null /\ ~req[w].result.null
     /\ req[v].expires > now /\ req[w].expires > now)
    => /\ Holds(req[v].acct, req[v].type, req[v].key)
       /\ Holds(req[w].acct, req[w].type, req[w].key)

\* C2: every (account, session type) pair has at most 3 live sessions, and
\* a new-session request whose UPDATE finds all 3 slots live succeeds: it
\* gets its own key back and the pair still has 3 slots, one overwritten.
C2_AtMostThreeLive ==
  /\ \A a \in AccountIds, t \in SessionTypes :
       Cardinality(LiveEntries(a, t)) <= 3
  /\ \A w \in Workers :
       (Done(w) /\ req[w].full)
       => /\ req[w].result.rows = 1
          /\ ~req[w].result.null
          /\ req[w].result.session_key = req[w].key
          /\ req[w].key \notin displaced
               => Cardinality({e \in Entries(req[w].acct) :
                                 e.type = req[w].type}) = 3

\* a fourth request has completed on a pair whose three slots were live,
\* and the pair has three live sessions, the new one among them
C2_Witness ==
  \E w \in Workers :
    /\ Done(w) /\ req[w].full
    /\ Cardinality(LiveEntries(req[w].acct, req[w].type)) = 3
    /\ \E e \in LiveEntries(req[w].acct, req[w].type) :
         e.session_key = req[w].key

\* C3: when the row a new-session request updates has an empty or expired
\* slot of the requested type, the request writes the lowest-indexed such
\* slot; it never overwrites a live session while such a slot exists.
C3_LowestReusableSlot ==
  [][\A w \in Workers :
       LET q == req[w]
           s == accounts[q.acct].sessions
       IN (/\ q.pc = "selected" /\ req'[w].pc = "done" /\ q.found
           /\ LowestReusable(s, q.type, q.stmt_now) # 0)
          => q.slot = SlotOrder[LowestReusable(s, q.type, q.stmt_now)]]_vars

\* C4: when all 3 slots of the requested type are live in the row a
\* new-session request updates, the request overwrites the slot with the
\* minimum expiry, the lowest-indexed one among equals.
C4_OldestLowestIndex ==
  [][\A w \in Workers :
       LET q == req[w]
           s == accounts[q.acct].sessions
       IN (/\ q.pc = "selected" /\ req'[w].pc = "done" /\ q.found
           /\ AllLive(s, q.type, q.stmt_now))
          => q.slot = SlotOrder[LowestOldest(s, q.type)]]_vars

\* C5: a new-session request on an existing account, however the row was
\* created, returns the key and expiry held by the written slot, equal to
\* the requested key and to request time + TTL, never an absent value.
C5_ReturnsWrittenSession ==
  \A w \in Workers :
    (Done(w) /\ req[w].result.rows = 1)
    => /\ ~req[w].result.null
       /\ req[w].result.session_key = req[w].key
       /\ req[w].result.expires = req[w].expires

\* C6: session lookup returns the account exactly when a slot of that
\* session type holds the key with expiry > now; a key displaced by a later
\* allocation, expired, or held under the other session type is rejected.
C6_LookupSound ==
  \A a \in AccountIds, t \in SessionTypes, k \in 1..MaxRequests :
    LET rows == get_account_from_session(accounts, a, k, t, now)
    IN IF \E e \in Entries(a) :
            e.type = t /\ e.session_key = k /\ e.expires > now
       THEN rows = {a} /\ k \notin displaced
       ELSE rows = {}

\* one key is accepted for its type while another key has been displaced,
\* a third has expired in its slot and the other type holds a live key
C6_Witness ==
  \E a \in AccountIds, t \in SessionTypes, k \in 1..MaxRequests :
    /\ get_account_from_session(accounts, a, k, t, now) = {a}
    /\ displaced # {}
    /\ \E e \in Entries(a) : e.type # t /\ e.expires > now
    /\ \E e \in Entries(a) : e.expires <= now

(***************************************************************************)
(* Part 2: the query builders of charts.py.  A builder is a pure function  *)
(* of its arguments; a behaviour makes one call and keeps what it          *)
(* returned.  An optional argument is {} (None) or {v}.  Short strings     *)
(* (ids, status names) are strings, "" the empty one; searched text is a   *)
(* sequence of letters, so that lower() and LIKE '%..%' are computed.      *)
(* A query is kept as its fragments: each fragment is its fixed text, `$`  *)
(* standing for the placeholder, and the placeholder's number.             *)
(***************************************************************************)
MaxSupplied == 2

Val(o) == CHOOSE v \in o : TRUE
\* Python truthiness of an optional argument whose falsy value is `falsy`
Truthy(o, falsy) == o # {} /\ o # {falsy}

\* str.lower() on text and on the short strings used for sort_order
LowerLetter(c) == IF c = "A" THEN "a" ELSE IF c = "B" THEN "b" ELSE c
Lower(txt) == [i \in 1..Len(txt) |-> LowerLetter(txt[i])]
LowerName(n) == IF n = "DESC" THEN "desc" ELSE IF n = "ASC" THEN "asc" ELSE n
\* f"%{x.lower()}%"
LikePattern(txt) == <<"%">> \o Lower(txt) \o <<"%">>

\* ------------------------------------------------------- get_chart_list
DefaultListArgs ==
  [page |-> 0, items_per_page |-> 1, min_rating |-> {}, max_rating |-> {},
   status |-> {"PUBLIC"}, tags |-> {}, min_likes |-> {}, max_likes |-> {},
   min_comments |-> {}, max_comments |-> {}, liked_by |-> {},
   commented_by |-> {}, staff_pick |-> {}, title_includes |-> {},
   description_includes |-> {}, artists_includes |-> {},
   author_includes |-> {}, sonolus_handle_is |-> {},
   sort_by |-> "created_at", sort_order |-> "desc", sonolus_id |-> {},
   meta_includes |-> {}, owned_by |-> {}]

\* the values an argument takes besides its default: None, a falsy value
\* and a truthy one wherever the code tells them apart
ListArgValues ==
  {<<"page", 1>>, <<"page", 2>>,
   <<"items_per_page", 2>>, <<"items_per_page", 10>>,
   <<"min_rating", {0}>>, <<"min_rating", {2}>>,
   <<"max_rating", {0}>>, <<"max_rating", {2}>>,
   <<"status", {}>>, <<"status", {""}>>, <<"status", {"PRIVATE"}>>,
   <<"status", {"UNLISTED"}>>,
   <<"tags", {<<>>}>>, <<"tags", {<<"t1">>}>>,
   <<"min_likes", {0}>>, <<"min_likes", {1}>>,
   <<"max_likes", {0}>>, <<"max_likes", {1}>>,
   <<"min_comments", {0}>>, <<"min_comments", {1}>>,
   <<"max_comments", {0}>>, <<"max_comments", {1}>>,
   <<"liked_by", {""}>>, <<"liked_by", {"u2"}>>,
   <<"commented_by", {""}>>, <<"commented_by", {"u1"}>>,
   <<"staff_pick", {FALSE}>>, <<"staff_pick", {TRUE}>>,
   <<"title_includes", {<<>>}>>, <<"title_includes", {<<"A">>}>>,
   <<"description_includes", {<<>>}>>, <<"description_includes", {<<"b">>}>>,
   <<"artists_includes", {<<>>}>>, <<"artists_includes", {<<"B">>}>>,
   <<"author_includes", {<<>>}>>, <<"author_includes", {<<"#", "7">>}>>,
   <<"meta_includes", {<<>>}>>, <<"meta_includes", {<<"a">>}>>,
   <<"sonolus_handle_is", {0}>>, <<"sonolus_handle_is", {7}>>,
   <<"sonolus_id", {""}>>, <<"sonolus_id", {"u2"}>>,
   <<"owned_by", {""}>>, <<"owned_by", {"u1"}>>,
   <<"sort_by", "published_at">>, <<"sort_by", "rating">>,
   <<"sort_by", "likes">>, <<"sort_by", "comments">>,
   <<"sort_by", "decaying_likes">>, <<"sort_by", "abc">>,
   <<"sort_by", "random">>, <<"sort_by", "bogus">>,
   <<"sort_order", "asc">>, <<"sort_order", "DESC">>,
   <<"sort_order", "bogus">>}

\* the argument records that differ from the defaults in at most n places
RECURSIVE ListArgs(_)
ListArgs(n) ==
  IF n = 0 THEN {DefaultListArgs}
  ELSE LET P == ListArgs(n - 1)
       IN P \cup {[a EXCEPT ![fv[1]] = fv[2]] : a \in P, fv \in ListArgValues}

\* One `if` block of a builder: whether its test passed, where its text
\* goes, the text, and the value it appends to the parameter list ({} when
\* it appends none).
Step(on, kind, text, value) ==
  [on |-> on, kind |-> kind, text |-> text, value |-> value]
IsOn(s) == s.on
HasValue(s) == s.value # {}
IsJoin(f) == f.kind = "join"
IsCond(f) == f.kind = "cond"
\* the blocks that ran, in the order they ran
Ran(steps) == SelectSeq(steps, IsOn)
\* ${len(params)} right after the block's own append: the number of values
\* appended so far
Placeholder(ran, i) ==
  IF ran[i].value = {} THEN 0
  ELSE Cardinality({j \in 1..i : ran[j].value # {}})
Fragments(ran) ==
  [i \in 1..Len(ran) |->
     [kind |-> ran[i].kind, text |-> ran[i].text, ph |-> Placeholder(ran, i)]]
\* the parameter list after all blocks ran
Appended(ran) ==
  [i \in 1..Len(SelectSeq(ran, HasValue)) |-> Val(SelectSeq(ran, HasValue)[i].value)]

\* the `if` blocks of get_chart_list, in source order
ListSteps(a) ==
  <<Step(Truthy(a.liked_by, ""), "join",
         "JOIN chart_likes clb ON c.id = clb.chart_id", {}),
    Step(Truthy(a.sonolus_id, ""), "join",
         "LEFT JOIN chart_likes cl ON c.id = cl.chart_id AND cl.sonolus_id = $",
         a.sonolus_id),
    Step(Truthy(a.status, ""), "cond", "c.status = $::chart_status", a.status),
    Step(a.staff_pick # {}, "cond", "c.staff_pick = $::BOOL", a.staff_pick),
    Step(a.min_rating # {}, "cond", "c.rating > $",
         {v - 1 : v \in a.min_rating}),
    Step(a.max_rating # {}, "cond", "c.rating < $",
         {v + 1 : v \in a.max_rating}),
    Step(Truthy(a.tags, <<>>), "cond", "c.tags @> $::text[]", a.tags),
    Step(a.min_likes # {}, "cond", "c.like_count >= $", a.min_likes),
    Step(a.max_likes # {}, "cond", "c.like_count <= $", a.max_likes),
    Step(a.min_comments # {}, "cond", "c.comment_count >= $", a.min_comments),
    Step(a.max_comments # {}, "cond", "c.comment_count <= $", a.max_comments),
    Step(Truthy(a.liked_by, ""), "cond", "clb.sonolus_id = $", a.liked_by),
    Step(Truthy(a.commented_by, ""), "join",
         "JOIN (SELECT DISTINCT chart_id FROM comments WHERE commenter = $) cmt ON c.id = cmt.chart_id",
         a.commented_by),
    Step(Truthy(a.owned_by, ""), "cond", "c.author = $", a.owned_by),
    Step(~Truthy(a.owned_by, "") /\ Truthy(a.sonolus_handle_is, 0), "cond",
         "a.sonolus_handle = $", a.sonolus_handle_is),
    Step(Truthy(a.title_includes, <<>>), "cond", "LOWER(c.title) LIKE $",
         {LikePattern(v) : v \in a.title_includes}),
    Step(Truthy(a.description_includes, <<>>), "cond",
         "LOWER(c.description) LIKE $",
         {LikePattern(v) : v \in a.description_includes}),
    Step(Truthy(a.artists_includes, <<>>), "cond", "LOWER(c.artists) LIKE $",
         {LikePattern(v) : v \in a.artists_includes}),
    Step(Truthy(a.author_includes, <<>>), "cond",
         "LOWER(c.chart_author || '#' || a.sonolus_handle) LIKE $",
         {LikePattern(v) : v \in a.author_includes}),
    Step(Truthy(a.meta_includes, <<>>), "cond",
         "(LOWER(c.title) LIKE $ OR LOWER(c.description) LIKE $ OR LOWER(c.chart_author || '#' || a.sonolus_handle) LIKE $ OR LOWER(c.artists) LIKE $)",
         {LikePattern(v) : v \in a.meta_includes})>>

\* inner_select as get_chart_list assembles it: the select list with or
\* without the `liked` column, the joins, and " WHERE " + " AND ".join(conditions)
inner_select(a) ==
  [liked_col |-> Truthy(a.sonolus_id, ""),
   joins |-> SelectSeq(Fragments(Ran(ListSteps(a))), IsJoin),
   conds |-> SelectSeq(Fragments(Ran(ListSteps(a))), IsCond)]

\* params when the last block has run
params(a) == Appended(Ran(ListSteps(a)))

\* {...}.get(sort_by, "created_at")
sort_column(sort_by) ==
  CASE sort_by = "created_at" -> "created_at"
    [] sort_by = "published_at" -> "published_at"
    [] sort_by = "rating" -> "rating"
    [] sort_by = "likes" -> "like_count"
    [] sort_by = "comments" -> "comment_count"
    [] sort_by = "decaying_likes" -> "decaying_score_sql"
    [] sort_by = "abc" -> "title"
    [] sort_by = "random" -> "RANDOM()"
    [] OTHER -> "created_at"

sort_order_sql(sort_order) ==
  IF LowerName(sort_order) = "desc" THEN "DESC" ELSE "ASC"

filter_published_at_null(a) ==
  IF sort_column(a.sort_by) = "published_at"
  THEN "AND published_at IS NOT NULL" ELSE ""

\* the two pagination values in the other order
data_params_swapped(count_params, a) ==
  count_params \o <<a.page * a.items_per_page, a.items_per_page>>

\* data_params = tuple(params) + (items_per_page, page * items_per_page)
data_params(count_params, a) ==
  count_params \o <<a.items_per_page, a.page * a.items_per_page>>

\* query: SELECT * FROM chart_data WHERE 1=1 {filter} ORDER BY ... LIMIT ..
page_query(a) ==
  [model |-> IF Truthy(a.sonolus_id, "") THEN "ChartDBResponseLiked"
             ELSE "ChartDBResponse",
   chart_data |-> inner_select(a),
   where |-> filter_published_at_null(a),
   order_by |-> <<sort_column(a.sort_by), sort_order_sql(a.sort_order)>>,
   limit |-> Len(params(a)) + 1,
   offset |-> Len(params(a)) + 2,
   args |-> data_params(params(a), a)]

\* count_query: SELECT COUNT(*) AS total_count FROM chart_data
count_query(a) ==
  [model |-> "Count", chart_data |-> inner_select(a), args |-> params(a)]

get_chart_list(a) == [count |-> count_query(a), page |-> page_query(a)]

GetChartList(a) ==
  /\ call = NoCall
  /\ call' = [fn |-> "get_chart_list", args |-> a, result |-> get_chart_list(a)]
  /\ UNCHANGED <<now, accounts, req, nreq, displaced, charts, upd>>

\* ------------------------------------------ update_metadata, update_file_hash
OptRating == {{}, {0}, {3}}
OptText == {{}, {""}, {"x"}}
OptTags == {{}, {<<>>}, {<<"t1">>}}
OptHash == {{}, {""}, {"h"}}
OptHashGiven == {{}, {"h"}}

NoQuery == [set_fields |-> <<>>, where |-> 0, args |-> <<>>]
Raise(msg) == [raised |-> TRUE, error |-> msg, query |-> NoQuery]
\* ExecutableQuery("UPDATE charts SET {set_clause} WHERE id = ${len(args)}")
\* after args.append(chart_id)
UpdateCharts(ran, chart_id) ==
  [raised |-> FALSE, error |-> "",
   query |-> [set_fields |-> Fragments(ran),
              where |-> Len(Appended(ran)) + 1,
              args |-> Append(Appended(ran), chart_id)]]

\* float(rating) when type(rating) == int
ToFloat(v) == [float |-> v]

\* the add_field / set_fields.append blocks of update_metadata, in source
\* order
MetadataSteps(a) ==
  <<Step(a.rating # {}, "set", "rating = $", {ToFloat(v) : v \in a.rating}),
    Step(a.chart_author # {}, "set", "chart_author = $", a.chart_author),
    Step(a.description # {}, "set", "description = $", a.description),
    Step(a.description = {} /\ a.update_none_description, "set",
         "description = NULL", {}),
    Step(a.title # {}, "set", "title = $", a.title),
    Step(a.artists # {}, "set", "artists = $", a.artists),
    Step(a.tags # {}, "set", "tags = $", a.tags),
    Step(TRUE, "set", "updated_at = CURRENT_TIMESTAMP", {})>>

\* the test update_file_hash makes, after the updated_at block has run
NothingSet(a) == Ran(MetadataSteps(a)) = <<>>

\* not any([rating, description, title, artists, tags, chart_author,
\*          update_none_description])
NothingTruthy(a) ==
  ~ \/ Truthy(a.rating, 0)
    \/ Truthy(a.description, "")
    \/ Truthy(a.title, "")
    \/ Truthy(a.artists, "")
    \/ Truthy(a.tags, <<>>)
    \/ Truthy(a.chart_author, "")
    \/ a.update_none_description

update_metadata(a) ==
  IF NothingTruthy(a) THEN Raise("At least one field must be updated.")
  ELSE UpdateCharts(Ran(MetadataSteps(a)), a.chart_id)

UpdateMetadata(a) ==
  /\ call = NoCall
  /\ call' = [fn |-> "update_metadata", args |-> a, result |-> update_metadata(a)]
  /\ UNCHANGED <<now, accounts, req, nreq, displaced, charts, upd>>

\* the blocks of update_file_hash, in source order; the updated_at block
\* runs before set_fields is tested
FileHashSteps(a) ==
  <<Step(a.jacket_hash # {}, "set", "jacket_file_hash = $", a.jacket_hash),
    Step(a.v1_hash # {}, "set", "background_v1_file_hash = $", a.v1_hash),
    Step(a.v3_hash # {}, "set", "background_v3_file_hash = $", a.v3_hash),
    Step(a.music_hash # {}, "set", "music_file_hash = $", a.music_hash),
    Step(a.chart_hash # {}, "set", "chart_file_hash = $", a.chart_hash),
    Step(a.preview_hash # {}, "set", "preview_file_hash = $", a.preview_hash),
    Step(a.preview_hash = {} /\ a.update_none_preview, "set",
         "preview_file_hash = NULL", {}),
    Step(a.background_hash # {}, "set", "background_file_hash = $",
         a.background_hash),
    Step(a.background_hash = {} /\ a.update_none_background, "set",
         "background_file_hash = NULL", {}),
    Step(TRUE, "set", "updated_at = CURRENT_TIMESTAMP", {})>>

update_file_hash(a) ==
  IF ~a.confirm_change
  THEN Raise("File hash change is not confirmed.")
  ELSE IF Truthy(a.jacket_hash, "")
          /\ ~(Truthy(a.v1_hash, "") /\ Truthy(a.v3_hash, ""))
  THEN Raise("Must regenerate v1/v3 on jacket change")
  ELSE IF Ran(FileHashSteps(a)) = <<>>
  THEN Raise("At least one file hash must be updated.")
  ELSE UpdateCharts(Ran(FileHashSteps(a)), a.chart_id)

UpdateFileHash(a) ==
  /\ call = NoCall
  /\ call' = [fn |-> "update_file_hash", args |-> a, result |-> update_file_hash(a)]
  /\ UNCHANGED <<now, accounts, req, nreq, displaced, charts, upd>>

\* ------------------------------------------- delete_account, delete_chart
\* A query whose text is a literal: the text, the placeholders it holds,
\* the caller's values formatted into it, and its arguments.
Query(sql, placeholders, interpolated, args) ==
  [sql |-> sql, placeholders |-> placeholders, interpolated |-> interpolated,
   args |-> args]
Return(q) == [raised |-> FALSE, error |-> "", query |-> q]

\* delete_account without its `if not confirm_change` block
delete_account_unchecked(a) ==
  Return(Query("DELETE FROM accounts WHERE sonolus_id = $1", {1}, {},
               <<a.sonolus_id>>))

delete_account(a) ==
  IF ~a.confirm_change THEN Raise("Deletion not confirmed.")
  ELSE Return(Query("DELETE FROM accounts WHERE sonolus_id = $1", {1}, {},
                    <<a.sonolus_id>>))

delete_chart(a) ==
  IF ~a.confirm_change THEN Raise("Deletion not confirmed.")
  ELSE IF ~Truthy(a.sonolus_id, "")
  THEN Return(Query("DELETE FROM charts USING accounts a WHERE charts.id = $1 AND charts.author = a.sonolus_id RETURNING ...",
                    {1}, {}, <<a.chart_id>>))
  ELSE Return(Query("DELETE FROM charts USING accounts a WHERE charts.id = $1 AND charts.author = $2 AND charts.author = a.sonolus_id RETURNING ...",
                    {1, 2}, {}, <<a.chart_id, Val(a.sonolus_id)>>))

DeleteAccountArgs == [sonolus_id : {"", "u1"}, confirm_change : BOOLEAN]
DeleteChartArgs ==
  [chart_id : ChartIds, sonolus_id : {{}, {""}, {"u1"}},
   confirm_change : BOOLEAN]

DeleteAccountQuery(a) ==
  /\ call = NoCall
  /\ call' = [fn |-> "delete_account", args |-> a, result |-> delete_account(a)]
  /\ UNCHANGED <<now, accounts, req, nreq, displaced, charts, upd>>

DeleteChart(a) ==
  /\ call = NoCall
  /\ call' = [fn |-> "delete_chart", args |-> a, result |-> delete_chart(a)]
  /\ UNCHANGED <<now, accounts, req, nreq, displaced, charts, upd>>

\* ------------------- the session builders of accounts.py, as builders
\* create_account_if_not_exists_and_new_session up to its return: the type
\* check, expiry_time read from the clock, and the two queries
create_account_if_not_exists_and_new_session(a, clock) ==
  IF a.session_type \notin {"game", "external"}
  THEN Raise("invalid session type. must be 'game' or 'external'.")
  ELSE Return([upsert_query |->
                 Query("INSERT INTO accounts (sonolus_id, sonolus_handle, sonolus_username, sonolus_sessions) VALUES ($1, $2, $3, jsonb_build_object(...)) ON CONFLICT (sonolus_id) DO UPDATE SET sonolus_username = EXCLUDED.sonolus_username",
                       {1, 2, 3}, {},
                       <<a.sonolus_id, a.sonolus_handle, a.sonolus_username>>),
               session_query |->
                 Query("WITH slot_to_use AS (... $2 ... WHERE sonolus_id=$1) UPDATE accounts a SET sonolus_sessions = jsonb_set(a.sonolus_sessions, array[$2, s.slot], jsonb_build_object('session_key', $3::text, 'expires', $4::bigint), true) FROM slot_to_use s WHERE a.sonolus_id=$1 RETURNING ...",
                       {1, 2, 3, 4}, {},
                       <<a.sonolus_id, a.session_type, a.session_key,
                         clock + a.expiry_ms>>)])

\* The query builder of get_account_from_session.  Its type check is an
\* assert statement, which runs only when the interpreter keeps assertions
\* (a.assertions; python -O and PYTHONOPTIMIZE drop them); session_type is
\* formatted into the text by the f-string.
session_lookup_query(a) ==
  IF a.assertions /\ a.session_type \notin {"game", "external"}
  THEN Raise("AssertionError")
  ELSE Return(Query("SELECT * FROM accounts WHERE sonolus_id = $1 AND EXISTS (SELECT 1 FROM jsonb_each(COALESCE(sonolus_sessions->'{session_type}', '{}'::jsonb)) AS sessions(slot, data) WHERE data->>'session_key' = $2::text AND (data->>'expires')::bigint > EXTRACT(EPOCH FROM NOW()) * 1000) LIMIT 1",
                    {1, 2}, {a.session_type},
                    <<a.sonolus_id, a.session_key>>))

SuppliedTypes == SessionTypes \cup {"", "admin", "game' OR '1'='1"}
NewSessionArgs ==
  [session_key : {"k1"}, sonolus_id : AccountIds, sonolus_handle : Handles,
   sonolus_username : Usernames, session_type : SuppliedTypes,
   expiry_ms : TTLs]
LookupArgs ==
  [sonolus_id : AccountIds, session_key : {"k1"},
   session_type : SuppliedTypes, assertions : BOOLEAN]

NewSessionQueries(a) ==
  /\ call = NoCall
  /\ call' = [fn |-> "create_account_if_not_exists_and_new_session",
              args |-> a,
              result |-> create_account_if_not_exists_and_new_session(a, now)]
  /\ UNCHANGED <<now, accounts, req, nreq, displaced, charts, upd>>

SessionLookupQuery(a) ==
  /\ call = NoCall
  /\ call' = [fn |-> "get_account_from_session", args |-> a,
              result |-> session_lookup_query(a)]
  /\ UNCHANGED <<now, accounts, req, nreq, displaced, charts, upd>>

MetadataArgs ==
  [chart_id : ChartIds, chart_author : OptText, rating : OptRating,
   description : OptText, title : OptText, artists : OptText,
   tags : OptTags, update_none_description : BOOLEAN]

FileHashArgs ==
  [chart_id : ChartIds, jacket_hash : OptHash, v1_hash : OptHash,
   v3_hash : OptHash, music_hash : OptHashGiven, chart_hash : OptHashGiven,
   preview_hash : OptHashGiven, background_hash : OptHashGiven,
   confirm_change : BOOLEAN, update_none_preview : BOOLEAN,
   update_none_background : BOOLEAN]

ListCalls == ListArgs(MaxSupplied)

NextBuild ==
  \/ \E a \in ListCalls : GetChartList(a)
  \/ \E a \in MetadataArgs : UpdateMetadata(a)
  \/ \E a \in FileHashArgs : UpdateFileHash(a)
  \/ \E a \in DeleteAccountArgs : DeleteAccountQuery(a)
  \/ \E a \in DeleteChartArgs : DeleteChart(a)
  \/ \E a \in NewSessionArgs : NewSessionQueries(a)
  \/ \E a \in LookupArgs : SessionLookupQuery(a)

SpecBuild == Init /\ [][NextBuild]_vars

(***************************************************************************)
(* What the two queries of get_chart_list select, on a table holding the   *)
(* rows create_chart and update_status leave behind: a chart is PRIVATE    *)
(* with published_at NULL until update_status first makes it PUBLIC.       *)
(***************************************************************************)
AccountHandles == [u \in {"u1", "u2"} |-> IF u = "u1" THEN <<"7">> ELSE <<"8">>]
AccountHandleNumbers == [u \in {"u1", "u2"} |-> IF u = "u1" THEN 7 ELSE 8]
ChartRows ==
  [c \in {"c1", "c2", "c3", "c4"} |->
     CASE c = "c1" ->
            [author |-> "u1", status |-> "PUBLIC", published_at |-> {1},
             rating |-> 2, like_count |-> 1, comment_count |-> 1,
             staff_pick |-> TRUE, tags |-> {"t1"}, title |-> <<"A", "b">>,
             description |-> <<"b">>, artists |-> <<"B">>,
             chart_author |-> <<"a">>]
       [] c = "c2" ->
            [author |-> "u1", status |-> "PRIVATE", published_at |-> {},
             rating |-> 0, like_count |-> 0, comment_count |-> 0,
             staff_pick |-> FALSE, tags |-> {}, title |-> <<"b">>,
             description |-> <<>>, artists |-> <<"A">>,
             chart_author |-> <<"a">>]
       [] c = "c3" ->
            [author |-> "u2", status |-> "PUBLIC", published_at |-> {2},
             rating |-> 3, like_count |-> 2, comment_count |-> 0,
             staff_pick |-> FALSE, tags |-> {"t1", "t2"}, title |-> <<"A">>,
             description |-> <<"A">>, artists |-> <<"b">>,
             chart_author |-> <<"B">>]
       [] OTHER ->
            [author |-> "u2", status |-> "UNLISTED", published_at |-> {},
             rating |-> 2, like_count |-> 0, comment_count |-> 1,
             staff_pick |-> FALSE, tags |-> {}, title |-> <<"a", "b">>,
             description |-> <<"b">>, artists |-> <<"a">>,
             chart_author |-> <<"b">>]]
\* chart_likes (chart_id, sonolus_id) and comments (chart_id, commenter)
ChartLikes == {<<"c1", "u2">>, <<"c3", "u1">>, <<"c3", "u2">>}
Comments == {<<"c1", "u1">>, <<"c4", "u2">>}

\* txt LIKE pat, for the patterns LikePattern builds
Like(txt, pat) ==
  LET x == SubSeq(pat, 2, Len(pat) - 1)
  IN \E i \in 0..(Len(txt) - Len(x)) : SubSeq(txt, i + 1, i + Len(x)) = x

\* c.chart_author || '#' || a.sonolus_handle
author_full(c) == c.chart_author \o <<"#">> \o AccountHandles[c.author]

\* a WHERE condition on a row of the join, $ bound to v
CondHolds(text, v, r) ==
  LET c == ChartRows[r.c] IN
  CASE text = "c.status = $::chart_status" -> c.status = v
    [] text = "c.staff_pick = $::BOOL" -> c.staff_pick = v
    [] text = "c.rating > $" -> c.rating > v
    [] text = "c.rating < $" -> c.rating < v
    [] text = "c.tags @> $::text[]" -> \A i \in 1..Len(v) : v[i] \in c.tags
    [] text = "c.like_count >= $" -> c.like_count >= v
    [] text = "c.like_count <= $" -> c.like_count <= v
    [] text = "c.comment_count >= $" -> c.comment_count >= v
    [] text = "c.comment_count <= $" -> c.comment_count <= v
    [] text = "clb.sonolus_id = $" -> r.clb = v
    [] text = "c.author = $" -> c.author = v
    [] text = "a.sonolus_handle = $" -> AccountHandleNumbers[c.author] = v
    [] text = "LOWER(c.title) LIKE $" -> Like(Lower(c.title), v)
    [] text = "LOWER(c.description) LIKE $" -> Like(Lower(c.description), v)
    [] text = "LOWER(c.artists) LIKE $" -> Like(Lower(c.artists), v)
    [] text = "LOWER(c.chart_author || '#' || a.sonolus_handle) LIKE $" ->
         Like(Lower(author_full(c)), v)
    [] OTHER ->
         \/ Like(Lower(c.title), v)
         \/ Like(Lower(c.description), v)
         \/ Like(Lower(author_full(c)), v)
         \/ Like(Lower(c.artists), v)

\* the rows of chart_data: charts joined to accounts, once per like when
\* chart_likes clb is joined, kept when the comments subquery has the chart
\* and every condition holds; the LEFT JOIN on cl drops and adds no row
ChartData(rel, args) ==
  LET liked == \E i \in 1..Len(rel.joins) :
                  rel.joins[i].text = "JOIN chart_likes clb ON c.id = clb.chart_id"
      joined == {[c |-> c, clb |-> u] :
                   c \in DOMAIN ChartRows,
                   u \in {""} \cup {l[2] : l \in ChartLikes}}
  IN {r \in joined :
        /\ IF liked THEN <<r.c, r.clb>> \in ChartLikes ELSE r.clb = ""
        /\ \A i \in 1..Len(rel.joins) :
             (rel.joins[i].ph # 0 /\ rel.joins[i].text # "LEFT JOIN chart_likes cl ON c.id = cl.chart_id AND cl.sonolus_id = $")
               => <<r.c, args[rel.joins[i].ph]>> \in Comments
        /\ \A i \in 1..Len(rel.conds) :
             CondHolds(rel.conds[i].text, args[rel.conds[i].ph], r)}

\* SELECT COUNT(*) AS total_count FROM chart_data
CountResult(q) == Cardinality(ChartData(q.chart_data, q.args))
\* SELECT * FROM chart_data WHERE 1=1 {filter}, without LIMIT and OFFSET
PageRows(q) ==
  {r \in ChartData(q.chart_data, q.args) :
     q.where = "AND published_at IS NOT NULL"
       => ChartRows[r.c].published_at # {}}

\* ------------------------------------------------ claims on the builders
ListCall == call.fn = "get_chart_list"

\* C7: for every combination of filters and every sort, the count query
\* counts exactly the rows the page query returns once its LIMIT and OFFSET
\* are removed.
C7_CountMatchesPage ==
  ListCall =>
    CountResult(call.result.count) = Cardinality(PageRows(call.result.page))

\* C8: the count query and the page query embed the same filtered relation,
\* and the page query's parameters are the count query's followed by
\* exactly items_per_page and page * items_per_page, which the LIMIT and
\* the OFFSET placeholder reference in that order.
C8_SharedRelationAndParams ==
  ListCall =>
    LET cq == call.result.count
        pq == call.result.page
        n == Len(cq.args)
    IN /\ pq.chart_data = cq.chart_data
       /\ Len(pq.args) = n + 2
       /\ SubSeq(pq.args, 1, n) = cq.args
       /\ pq.limit = n + 1 /\ pq.offset = n + 2
       /\ pq.args[pq.limit] = call.args.items_per_page
       /\ pq.args[pq.offset] = call.args.page * call.args.items_per_page

C8_Witness ==
  /\ ListCall
  /\ call.args.page = 1 /\ call.args.items_per_page = 10
  /\ Len(call.result.count.args) = 1
  /\ call.result.page.args = <<"PUBLIC", 10, 10>>
  /\ call.result.page.limit = 2 /\ call.result.page.offset = 3

NoFieldSet(a) ==
  /\ a.rating = {} /\ a.description = {} /\ a.title = {} /\ a.artists = {}
  /\ a.tags = {} /\ a.chart_author = {} /\ ~a.update_none_description

\* C9: update_metadata called with no field set, and no request to null the
\* description, raises the validation error and produces no query.
C9_NoFieldRaises ==
  (call.fn = "update_metadata" /\ NoFieldSet(call.args)) =>
    /\ call.result.raised
    /\ call.result.error = "At least one field must be updated."
    /\ call.result.query = NoQuery

C9_Witness ==
  /\ call.fn = "update_metadata" /\ NoFieldSet(call.args)
  /\ call.result.raised

NoHashGiven(a) ==
  /\ a.jacket_hash = {} /\ a.v1_hash = {} /\ a.v3_hash = {}
  /\ a.music_hash = {} /\ a.chart_hash = {} /\ a.preview_hash = {}
  /\ a.background_hash = {}
  /\ ~a.update_none_preview /\ ~a.update_none_background

\* C10: update_file_hash called with confirm_change set, no hash given and
\* no null-out flag set raises 'At least one file hash must be updated.' and
\* produces no query.
C10_NoHashRaises ==
  (call.fn = "update_file_hash" /\ call.args.confirm_change
     /\ NoHashGiven(call.args)) =>
    /\ call.result.raised
    /\ call.result.error = "At least one file hash must be updated."
    /\ call.result.query = NoQuery

Confirmed(fn) == fn \in {"delete_account", "delete_chart", "update_file_hash"}
NotConfirmedError ==
  {"Deletion not confirmed.", "File hash change is not confirmed."}

\* C11: delete_account, delete_chart and update_file_hash called without
\* confirm_change raise before any query is built, whatever their other
\* arguments; with confirm_change set they never raise for that reason.
C11_ConfirmationRequired ==
  Confirmed(call.fn) =>
    IF call.args.confirm_change
    THEN call.result.error \notin NotConfirmedError
    ELSE /\ call.result.raised
         /\ call.result.error \in NotConfirmedError
         /\ call.result.query = NoQuery

C11_Witness ==
  /\ call.fn = "delete_chart"
  /\ ~call.args.confirm_change /\ call.args.sonolus_id = {"u1"}
  /\ call.result.raised /\ call.result.query = NoQuery

SessionCall ==
  call.fn \in {"create_account_if_not_exists_and_new_session",
               "get_account_from_session"}

\* C12: new-session allocation and session lookup both reject a session
\* type other than 'game' or 'external' with an error, before any query is
\* built.
C12_SessionTypeRejected ==
  (SessionCall /\ call.args.session_type \notin {"game", "external"}) =>
    call.result.raised /\ call.result.query = NoQuery

SortStrategies ==
  {"created_at", "rating", "likes", "comments", "decaying_likes", "abc",
   "random", "published_at"}
SortDirections == {"desc", "asc"}

\* C13: a ranking strategy outside the enumerated set orders the page query
\* by creation time, and a direction outside {asc, desc} orders it
\* descending; an unknown value never selects another column or an
\* ascending order.
C13_UnknownSortFallsBack ==
  ListCall =>
    /\ call.args.sort_by \notin SortStrategies
         => call.result.page.order_by[1] = "created_at"
    /\ call.args.sort_order \notin SortDirections
         => call.result.page.order_by[2] = "DESC"

\* the literals get_chart_list formats into ORDER BY
SortLiterals ==
  {"created_at", "published_at", "rating", "like_count", "comment_count",
   "decaying_score_sql", "title", "RANDOM()", "DESC", "ASC"}
NumberedIn(frags) == {frags[i].ph : i \in 1..Len(frags)} \ {0}

\* What a built query shows of its caller's values: the placeholders in its
\* text, the values formatted into its text, and its argument list.
ListView(q, extra, formatted) ==
  [placeholders |-> NumberedIn(q.chart_data.joins)
                      \cup NumberedIn(q.chart_data.conds) \cup extra,
   interpolated |-> formatted \ SortLiterals,
   args |-> q.args]
UpdateView(q) ==
  [placeholders |-> NumberedIn(q.set_fields) \cup {q.where},
   interpolated |-> {}, args |-> q.args]
StaticView(q) ==
  [placeholders |-> q.placeholders, interpolated |-> q.interpolated,
   args |-> q.args]
QueriesBuilt ==
  IF call.fn = "none" THEN {}
  ELSE IF call.fn = "get_chart_list"
  THEN {ListView(call.result.count, {}, {}),
        ListView(call.result.page,
                 {call.result.page.limit, call.result.page.offset},
                 {call.result.page.order_by[1], call.result.page.order_by[2]})}
  ELSE IF call.result.raised THEN {}
  ELSE IF call.fn \in {"update_metadata", "update_file_hash"}
  THEN {UpdateView(call.result.query)}
  ELSE IF call.fn = "create_account_if_not_exists_and_new_session"
  THEN {StaticView(call.result.query.upsert_query),
        StaticView(call.result.query.session_query)}
  ELSE {StaticView(call.result.query)}

\* C14: in every query built, no value of the caller appears in the text;
\* the text refers to the values by placeholders only, every placeholder
\* numbers an existing argument and every argument is numbered.
C14_ValuesBoundAsParameters ==
  \A q \in QueriesBuilt :
    q.interpolated = {} /\ q.placeholders = 1..Len(q.args)

\* the filter arguments of get_chart_list and the fragment each one adds
FilterFragment ==
  [status |-> "c.status = $::chart_status",
   staff_pick |-> "c.staff_pick = $::BOOL",
   min_rating |-> "c.rating > $",
   max_rating |-> "c.rating < $",
   tags |-> "c.tags @> $::text[]",
   min_likes |-> "c.like_count >= $",
   max_likes |-> "c.like_count <= $",
   min_comments |-> "c.comment_count >= $",
   max_comments |-> "c.comment_count <= $",
   liked_by |-> "clb.sonolus_id = $",
   commented_by |-> "JOIN (SELECT DISTINCT chart_id FROM comments WHERE commenter = $) cmt ON c.id = cmt.chart_id",
   owned_by |-> "c.author = $",
   sonolus_handle_is |-> "a.sonolus_handle = $",
   title_includes |-> "LOWER(c.title) LIKE $",
   description_includes |-> "LOWER(c.description) LIKE $",
   artists_includes |-> "LOWER(c.artists) LIKE $",
   author_includes |-> "LOWER(c.chart_author || '#' || a.sonolus_handle) LIKE $",
   meta_includes |-> "(LOWER(c.title) LIKE $ OR LOWER(c.description) LIKE $ OR LOWER(c.chart_author || '#' || a.sonolus_handle) LIKE $ OR LOWER(c.artists) LIKE $)"]
\* how many fragments of the relation carry the text
Contributed(rel, text) ==
  Cardinality({i \in 1..Len(rel.joins) : rel.joins[i].text = text})
    + Cardinality({i \in 1..Len(rel.conds) : rel.conds[i].text = text})

\* C15: each filter argument that is supplied (anything but None, so also 0,
\* "" and an empty tag list) adds exactly one fragment to the filtered
\* relation and each absent one adds none, except sonolus_handle_is when
\* owned_by is supplied too.
C15_OneFragmentPerFilter ==
  ListCall =>
    \A f \in DOMAIN FilterFragment :
      LET n == Contributed(call.result.page.chart_data, FilterFragment[f])
      IN IF call.args[f] = {} THEN n = 0
         ELSE IF f = "sonolus_handle_is" /\ call.args.owned_by # {}
         THEN n <= 1
         ELSE n = 1

\* ------------------------------------------- claims on update_metadata
\* a value was passed for one of update_metadata's six fields
AnyFieldSupplied(a) ==
  \/ a.rating # {} \/ a.description # {} \/ a.title # {}
  \/ a.artists # {} \/ a.tags # {} \/ a.chart_author # {}

\* the SET list of q assigns the supplied value o to the column of `text`
\* through a numbered placeholder
SetsField(q, text, o, value) ==
  o # {} =>
    \E i \in DOMAIN q.set_fields :
      /\ q.set_fields[i].text = text
      /\ q.set_fields[i].ph \in 1..(Len(q.args) - 1)
      /\ q.args[q.set_fields[i].ph] = value

\* the numbered placeholders of the SET list are 1, 2, ... in the order of
\* the fragments, one per value in front of the chart id
NumberedInOrder(q) ==
  LET numbered == SelectSeq(q.set_fields, LAMBDA f : f.ph # 0)
  IN /\ Len(numbered) = Len(q.args) - 1
     /\ \A i \in DOMAIN numbered : numbered[i].ph = i

\* C22: update_metadata never rejects a call in which at least one of
\* rating, description, title, artists, tags, chart_author is given a value
\* (0, "" and an empty tag list included): it returns an update whose SET
\* list holds each such field, numbered in argument order, with the chart
\* id as the last argument and the WHERE placeholder.
C22_SuppliedFieldNeverRejected ==
  (call.fn = "update_metadata" /\ AnyFieldSupplied(call.args)) =>
    IF call.result.raised THEN FALSE
    ELSE LET a == call.args
             q == call.result.query
         IN /\ SetsField(q, "rating = $", a.rating,
                         ToFloat(Val(a.rating)))
            /\ SetsField(q, "chart_author = $", a.chart_author,
                         Val(a.chart_author))
            /\ SetsField(q, "description = $", a.description,
                         Val(a.description))
            /\ SetsField(q, "title = $", a.title, Val(a.title))
            /\ SetsField(q, "artists = $", a.artists, Val(a.artists))
            /\ SetsField(q, "tags = $", a.tags, Val(a.tags))
            /\ NumberedInOrder(q)
            /\ q.where = Len(q.args)
            /\ q.args[Len(q.args)] = a.chart_id

(***************************************************************************)
(* Part 3: the account row beyond its sessions.  Requests run one at a     *)
(* time on one connection, the clock stands still, and callers supply      *)
(* changing handles and usernames; set_admin and set_mod are executed on   *)
(* the row.  `call` keeps the last role statement executed and the flags   *)
(* the row had before it.                                                  *)
(***************************************************************************)
SuppliedHandles == {1, 2}
SuppliedUsernames == {"u1", "u2"}
Connection == CHOOSE w \in Workers : \A v \in Workers : w <= v

\* set_mod with the SET clause of its first branch in both branches
set_mod_only(row, mod_status) ==
  IF ~row.exists THEN row ELSE [row EXCEPT !.mod = mod_status]

\* UPDATE accounts SET admin = $1 [, mod = $1] WHERE sonolus_id = $2
set_admin(row, admin_status) ==
  IF ~row.exists THEN row
  ELSE IF admin_status = FALSE THEN [row EXCEPT !.admin = admin_status]
  ELSE [row EXCEPT !.admin = admin_status, !.mod = admin_status]

\* UPDATE accounts SET mod = $1 [, admin = $1] WHERE sonolus_id = $2
set_mod(row, mod_status) ==
  IF ~row.exists THEN row
  ELSE IF mod_status = TRUE THEN [row EXCEPT !.mod = mod_status]
  ELSE [row EXCEPT !.mod = mod_status, !.admin = mod_status]

Flags(row) == [exists |-> row.exists, admin |-> row.admin, mod |-> row.mod]

SetAdmin(a, admin_status) ==
  /\ accounts' = [accounts EXCEPT ![a] = set_admin(@, admin_status)]
  /\ call' = [fn |-> "set_admin",
              args |-> [sonolus_id |-> a, admin_status |-> admin_status],
              was |-> Flags(accounts[a])]
  /\ UNCHANGED <<now, req, nreq, displaced, charts, upd>>

SetMod(a, mod_status) ==
  /\ accounts' = [accounts EXCEPT ![a] = set_mod(@, mod_status)]
  /\ call' = [fn |-> "set_mod",
              args |-> [sonolus_id |-> a, mod_status |-> mod_status],
              was |-> Flags(accounts[a])]
  /\ UNCHANGED <<now, req, nreq, displaced, charts, upd>>

NextAccount ==
  \/ \E a \in AccountIds, h \in SuppliedHandles, u \in SuppliedUsernames :
       CreateAccount(a, h, u)
  \/ \E a \in AccountIds, t \in SessionTypes, ttl \in TTLs,
        h \in SuppliedHandles, u \in SuppliedUsernames :
       NewSession(Connection, a, t, ttl, h, u)
  \/ SlotToUse(Connection)
  \/ UpdateSlot(Connection)
  \/ \E a \in AccountIds, st \in BOOLEAN : SetAdmin(a, st)
  \/ \E a \in AccountIds, st \in BOOLEAN : SetMod(a, st)

SpecAccount == Init /\ [][NextAccount]_vars

\* ---------------------------------------------- claims on the account row
\* C16: an account that satisfies `admin implies mod` still satisfies it
\* after any sequence of set_admin and set_mod: promoting to admin sets
\* mod, and demoting from mod clears admin.
C16_AdminImpliesMod ==
  /\ \A a \in AccountIds : accounts[a].admin => accounts[a].mod
  /\ \A a \in AccountIds :
       (call.fn = "set_admin" /\ call.args.sonolus_id = a
          /\ call.args.admin_status /\ call.was.exists)
         => accounts[a].admin /\ accounts[a].mod
  /\ \A a \in AccountIds :
       (call.fn = "set_mod" /\ call.args.sonolus_id = a
          /\ ~call.args.mod_status /\ call.was.exists)
         => ~accounts[a].admin /\ ~accounts[a].mod

C16_Witness ==
  \E a \in AccountIds :
    /\ call.fn = "set_mod" /\ call.args.sonolus_id = a
    /\ ~call.args.mod_status
    /\ call.was.admin /\ call.was.mod
    /\ accounts[a].exists /\ ~accounts[a].admin /\ ~accounts[a].mod

\* C17: revoking admin (set_admin with false) also revokes mod: after it
\* the account is neither admin nor mod.
C17_RevokeAdminRevokesMod ==
  \A a \in AccountIds :
    (call.fn = "set_admin" /\ call.args.sonolus_id = a
       /\ ~call.args.admin_status /\ call.was.exists)
      => ~accounts[a].admin /\ ~accounts[a].mod

\* C18: the upsert of create_account_if_not_exists_and_new_session, run for
\* an account that already exists, sets both the stored username and the
\* stored handle to the supplied values and leaves the session slots as
\* they are.
C18_UpsertUpdatesBoth ==
  [][\A a \in AccountIds, t \in SessionTypes, ttl \in TTLs,
        h \in SuppliedHandles, u \in SuppliedUsernames :
       (accounts[a].exists /\ NewSession(Connection, a, t, ttl, h, u))
         => /\ accounts'[a].username = u
            /\ accounts'[a].handle = h
            /\ accounts'[a].sessions = accounts[a].sessions]_vars

\* ------------------------------------- further claims on the sessions
\* C19: the allocator and the lookup agree on liveness at every instant: a
\* slot holding a session is reusable for the allocator exactly when the
\* lookup does not accept its token, also when expires equals now.
C19_AllocatorAgreesWithLookup ==
  \A a \in AccountIds, t \in SessionTypes, i \in 1..3 :
    \A e \in jsonb_extract_path(accounts[a].sessions, t, SlotOrder[i]) :
      SlotReusable(accounts[a].sessions, t, SlotOrder[i], now)
        <=> get_account_from_session(accounts, a, e.session_key, t, now) = {}

\* the slots of a row other than slot k of type t
OtherSlots(s, t, k) ==
  (IF s.null THEN {} ELSE s.slots) \ jsonb_extract_path(s, t, k)

\* C20: a new-session request for (A, T) changes exactly one slot of T on
\* A: that slot changes, and the other slots of T, the slots of the other
\* type and every other account stay as they are.
C20_ExactlyOneSlotChanges ==
  [][\A w \in Workers :
       (req[w].pc = "selected" /\ req'[w].pc = "done") =>
         LET q == req[w]
             old == accounts[q.acct].sessions
             new == accounts'[q.acct].sessions
         IN /\ \A b \in AccountIds \ {q.acct} : accounts'[b] = accounts[b]
            /\ OtherSlots(new, q.type, q.slot) = OtherSlots(old, q.type, q.slot)
            /\ jsonb_extract_path(new, q.type, q.slot)
                 # jsonb_extract_path(old, q.type, q.slot)]_vars

(***************************************************************************)
(* Part 4: update_status on the charts table.  Its query is one statement: *)
(* a data-modifying WITH (the UPDATE) joined back to charts.  As in Part 1 *)
(* the statement reads charts from the snapshot taken when it starts,      *)
(* which never shows the statement's own UPDATE, while the UPDATE itself   *)
(* is applied to the newest committed version of the row.                  *)
(* CURRENT_TIMESTAMP is the time at which the statement started.           *)
(***************************************************************************)
ChartStatuses == {"PUBLIC", "UNLISTED", "PRIVATE"}
ChartAuthors == {"u1"}
\* update_status's sonolus_id: absent, the author, somebody else
StatusCallers == {{}, {"u1"}, {"u2"}}

UpdFree(w) == upd[w].pc \in {"idle", "done"}

\* create_chart: INSERT ... status 'PRIVATE', published_at left unset
CreateChart(c, author) ==
  /\ ~charts[c].exists
  /\ charts' = [charts EXCEPT ![c] =
       [exists |-> TRUE, author |-> author, status |-> "PRIVATE",
        published_at |-> {}]]
  /\ UNCHANGED <<now, accounts, req, nreq, displaced, call, upd>>

\* update_status builds its query and the statement starts: it takes its
\* snapshot of charts and its CURRENT_TIMESTAMP
UpdateStatusStart(w, c, status, sonolus_id) ==
  /\ UpdFree(w)
  /\ \A v \in Workers : UpdFree(v) => ~(v < w)
  /\ upd' = [upd EXCEPT ![w] =
       [StatusIdle EXCEPT !.pc = "started", !.chart = c, !.status = status,
                          !.sonolus_id = sonolus_id, !.stmt_now = now,
                          !.snapshot = charts[c]]]
  /\ UNCHANGED <<now, accounts, req, nreq, displaced, call, charts>>

\* WHERE id = $2 [AND author = $3]; the second form is built when
\* sonolus_id is truthy
StatusRowMatches(row, sonolus_id) ==
  row.exists /\ (Truthy(sonolus_id, "") => row.author = Val(sonolus_id))

\* published_at = CASE WHEN $1 = 'PUBLIC' AND published_at IS NULL
\*                     THEN CURRENT_TIMESTAMP ELSE published_at END
published_at_case(row, status, stmt_now) ==
  IF status = "PUBLIC" /\ row.published_at = {} THEN {stmt_now}
  ELSE row.published_at

\* The UPDATE of the WITH is applied to the newest row; the outer SELECT
\* joins its RETURNING row to the snapshot's row of charts and reports
\* updated.published_at IS DISTINCT FROM charts.published_at.
UpdateStatusApply(w) ==
  /\ upd[w].pc = "started"
  /\ LET q == upd[w]
         row == charts[q.chart]
         new == [row EXCEPT !.status = q.status,
                            !.published_at =
                               published_at_case(row, q.status, q.stmt_now)]
     IN IF q.snapshot.exists /\ StatusRowMatches(row, q.sonolus_id)
        THEN /\ charts' = [charts EXCEPT ![q.chart] = new]
             /\ upd' = [upd EXCEPT ![w] =
                  [q EXCEPT !.pc = "done",
                            !.result =
                               [rows |-> 1,
                                is_first_publish |->
                                  new.published_at # q.snapshot.published_at,
                                published_at |-> q.snapshot.published_at]]]
        ELSE /\ charts' = charts
             /\ upd' = [upd EXCEPT ![w] = [q EXCEPT !.pc = "done"]]
  /\ UNCHANGED <<now, accounts, req, nreq, displaced, call>>

NextChart ==
  \/ Tick
  \/ \E c \in ChartIds, author \in ChartAuthors : CreateChart(c, author)
  \/ \E w \in Workers, c \in ChartIds, status \in ChartStatuses,
        sonolus_id \in StatusCallers :
       UpdateStatusStart(w, c, status, sonolus_id)
  \/ \E w \in Workers : UpdateStatusApply(w)

SpecChart == Init /\ [][NextChart]_vars

\* ------------------------------------------------ claims on update_status
\* C21: across update_status operations on a chart, published_at is
\* write-once: it is set, to the current time, only by an update to PUBLIC
\* made while it is unset, it is never changed or cleared afterwards, and
\* is_first_publish is reported true for exactly the update that set it.
C21_PublishedAtWriteOnce ==
  [][\A c \in ChartIds :
       /\ charts[c].published_at # {}
            => charts'[c].published_at = charts[c].published_at
       /\ (charts[c].published_at = {} /\ charts'[c].published_at # {})
            => \E w \in Workers :
                 /\ upd[w].pc = "started" /\ upd'[w].pc = "done"
                 /\ upd[w].chart = c /\ upd[w].status = "PUBLIC"
                 /\ charts'[c].published_at = {upd[w].stmt_now}
       /\ \A w \in Workers :
            (upd[w].pc = "started" /\ upd'[w].pc = "done"
               /\ upd[w].chart = c /\ upd'[w].result.rows = 1)
              => (upd'[w].result.is_first_publish
                    <=> (charts[c].published_at = {}
                           /\ charts'[c].published_at # {}))]_vars

====
